---- MODULE Spec2Model ----
(***************************************************************************)
(* Model of src/main.py: the module-level set-up (load_dotenv, the chat    *)
(* client, the launch parameters) followed by asyncio.run(main()), where   *)
(* main() opens the stdio transport, opens and initialises the MCP         *)
(* session, loads the tools, builds the ReAct agent, invokes it once and   *)
(* prints the answer.  Every call into a library is a step whose outcome   *)
(* (return or raise) is chosen by the environment; an exception unwinds    *)
(* through the open `async with` scopes, innermost first, and ends the     *)
(* process with a non-zero status.                                         *)
(***************************************************************************)
EXTENDS Integers, Sequences, FiniteSets, TLC

\* ---------------------------------------------------------------- bounds
\* Largest number of tools the tool server declares.
MaxTools == 2
\* Largest number of tool invocations the agent loop makes before its
\* iteration cap raises.
MaxCalls == 2

\* ------------------------------------------------------------ input sets
Unset == "<unset>"
CredentialKey == "ANTHROPIC_API_KEY"
Keys == {CredentialKey, "OTHER"}
Values == {"v1", "v2"}
EnvMaps == [Keys -> Values \cup {Unset}]
Answers == {"4", "other"}

\* What the tool server declares on list_tools: n descriptors, n <= MaxTools.
Declarations ==
  {[i \in 1..n |-> [name |-> i, form |-> "mcp"]] : n \in 0..MaxTools}

VARIABLES
  environ,            \* os.environ
  environ0,           \* os.environ as the process started (history)
  dotenv,             \* the key/value pairs of the .env file (Unset: absent)
  executable_exists,  \* whether stdio_server_params.command can be launched
  declared,           \* the tool descriptors the server declares
  pc,                 \* the statement of main.py about to run
  inflight,           \* awaited calls that have started and not returned
  llm,                \* module-level llm
  child,              \* the tool-server process: none / running / terminated
  transport,          \* stdio_client scope (read, write): none / open / closed
  session,            \* ClientSession scope: none / open / closed
  initialized,        \* session.initialize() has returned
  tools,              \* main's tools
  agent,              \* main's agent
  messages,           \* the conversation held by agent.ainvoke
  loop,               \* position inside agent.ainvoke: idle / model / tool
  calls,              \* tool invocations made by agent.ainvoke
  stdout,             \* lines printed so far
  failed,             \* the step whose exception is propagating, or "none"
  completed,          \* steps that returned normally (history)
  attempts,           \* how many times each step was started (history)
  uses,               \* each use of the transport, with the scopes' state (history)
  exit_status         \* -1 while the process runs, then 0 or 1

inputs == <<environ0, dotenv, executable_exists, declared>>
scopes == <<child, transport, session, initialized>>
agentv == <<tools, agent, messages, loop, calls>>
vars == <<environ, inputs, pc, inflight, llm, scopes, agentv, stdout, failed,
          completed, attempts, uses, exit_status>>

\* ------------------------------------------------------- program order
\* The statements of main.py in the order control reaches them.
Program_SkipInitialize ==
  <<"load_dotenv", "construct_llm", "asyncio_run", "print_banner",
    "enter_transport", "enter_session", "print_initialized",
    "load_tools", "print_tools", "create_agent", "ainvoke", "print_answer">>

Program_BannerAfterLaunch ==
  <<"load_dotenv", "construct_llm", "asyncio_run",
    "enter_transport", "print_banner", "enter_session", "initialize",
    "print_initialized", "load_tools", "print_tools", "create_agent",
    "ainvoke", "print_answer">>

Program_LaunchBeforeClient ==
  <<"load_dotenv", "enter_transport", "construct_llm", "asyncio_run",
    "print_banner", "enter_session", "initialize",
    "print_initialized", "load_tools", "print_tools", "create_agent",
    "ainvoke", "print_answer">>

Program ==
  <<"load_dotenv", "construct_llm", "asyncio_run", "print_banner",
    "enter_transport", "enter_session", "initialize", "print_initialized",
    "load_tools", "print_tools", "create_agent", "ainvoke", "print_answer">>

AllSteps ==
  {"load_dotenv", "construct_llm", "asyncio_run", "print_banner",
   "enter_transport", "enter_session", "initialize", "print_initialized",
   "load_tools", "print_tools", "create_agent", "ainvoke", "print_answer"}

IndexOf(p) == CHOOSE i \in 1..Len(Program) : Program[i] = p

\* Leaving the open `async with` scopes, innermost first.
Unwind(sess, trans) ==
  IF sess = "open" THEN "exit_session"
  ELSE IF trans = "open" THEN "exit_transport"
  ELSE "exit"

\* The statement after p when p returns normally.
After(p, sess, trans) ==
  IF IndexOf(p) < Len(Program) THEN Program[IndexOf(p) + 1]
  ELSE Unwind(sess, trans)

\* ------------------------------------------------------ library calls
\* load_dotenv(): override defaults to False, so a key the environment
\* already defines keeps its value.
load_dotenv_override(env, src) ==
  [k \in Keys |-> IF src[k] # Unset THEN src[k] ELSE env[k]]

load_dotenv(env, src) ==
  [k \in Keys |-> IF env[k] # Unset THEN env[k] ELSE src[k]]

\* ChatAnthropic(model=...): reads its credential from the environment.
ChatAnthropic(env) == IF env[CredentialKey] # Unset THEN "ok" ELSE "error"

\* load_mcp_tools(session): one LangChain tool per declared descriptor.
load_mcp_tools(decl) ==
  [i \in 1..Len(decl) |-> [name |-> decl[i].name, form |-> "langchain"]]

\* [tool.name for tool in tools]
ToolNames(ts) == [i \in 1..Len(ts) |-> ts[i].name]

\* A Python name: not yet bound, or bound to a value.
Unbound == [bound |-> FALSE, val |-> <<>>]
Bound(v) == [bound |-> TRUE, val |-> v]

Init ==
  /\ environ0 \in EnvMaps
  /\ environ = environ0
  /\ dotenv \in EnvMaps
  /\ executable_exists \in BOOLEAN
  /\ declared \in Declarations
  /\ pc = Program[1]
  /\ inflight = {}
  /\ llm = "none"
  /\ child = "none"
  /\ transport = "none"
  /\ session = "none"
  /\ initialized = FALSE
  /\ tools = Unbound
  /\ agent = Unbound
  /\ messages = <<>>
  /\ loop = "idle"
  /\ calls = 0
  /\ stdout = <<>>
  /\ failed = "none"
  /\ completed = {}
  /\ attempts = [s \in AllSteps |-> 0]
  /\ uses = {}
  /\ exit_status = -1

\* ------------------------------------------------------ step outcomes
Start(step) == attempts' = [attempts EXCEPT ![step] = @ + 1]

\* step returns normally.
Return(step, sess, trans) ==
  /\ pc' = After(step, sess, trans)
  /\ completed' = completed \cup {step}
  /\ inflight' = inflight \ {step}
  /\ failed' = failed

\* step raises: nothing in main.py catches it.
Raise(step, sess, trans) ==
  /\ pc' = Unwind(sess, trans)
  /\ failed' = step
  /\ inflight' = {}
  /\ completed' = completed

Use(op) ==
  uses' = uses \cup {[op |-> op, transport |-> transport, session |-> session]}

\* ------------------------------------------------ module-level set-up
LoadDotenv ==
  /\ pc = "load_dotenv"
  /\ Start("load_dotenv")
  /\ environ' = load_dotenv(environ, dotenv)
  /\ Return("load_dotenv", session, transport)
  /\ UNCHANGED <<inputs, llm, scopes, agentv, stdout, uses, exit_status>>

ConstructLLM ==
  /\ pc = "construct_llm"
  /\ Start("construct_llm")
  /\ IF ChatAnthropic(environ) = "ok"
       THEN llm' = "ok" /\ Return("construct_llm", session, transport)
       ELSE llm' = llm /\ Raise("construct_llm", session, transport)
  /\ UNCHANGED <<environ, inputs, scopes, agentv, stdout, uses, exit_status>>

AsyncioRun ==
  /\ pc = "asyncio_run"
  /\ Start("asyncio_run")
  /\ Return("asyncio_run", session, transport)
  /\ UNCHANGED <<environ, inputs, llm, scopes, agentv, stdout, uses, exit_status>>

\* ---------------------------------------------------------------- main
\* print(line): the line is written, or the write raises.
PrintStep(step, line) ==
  /\ pc = step
  /\ Start(step)
  /\ \E ok \in BOOLEAN :
       IF ok
         THEN stdout' = Append(stdout, line) /\ Return(step, session, transport)
         ELSE stdout' = stdout /\ Raise(step, session, transport)
  /\ UNCHANGED <<environ, inputs, llm, scopes, agentv, uses, exit_status>>

PrintBanner == PrintStep("print_banner", [kind |-> "banner", text |-> <<>>])

BeginEnterTransport ==
  /\ pc = "enter_transport"
  /\ "enter_transport" \notin inflight
  /\ Start("enter_transport")
  /\ inflight' = inflight \cup {"enter_transport"}
  /\ UNCHANGED <<environ, inputs, pc, llm, scopes, agentv, stdout, failed,
                 completed, uses, exit_status>>

\* A launch failure is swallowed and the body runs without a child.
EnterTransportDone_SwallowLaunchFailure ==
  /\ pc = "enter_transport"
  /\ "enter_transport" \in inflight
  /\ IF executable_exists
       THEN /\ child' = "running"
            /\ transport' = "open"
            /\ Return("enter_transport", session, "open")
       ELSE /\ child' = child
            /\ transport' = "open"
            /\ Return("enter_transport", session, "open")
  /\ UNCHANGED <<environ, inputs, llm, session, initialized, agentv, stdout,
                 uses, attempts, exit_status>>

\* stdio_client(stdio_server_params).__aenter__: spawns the child and yields
\* (read, write), or raises when the executable cannot be launched.
EnterTransportDone ==
  /\ pc = "enter_transport"
  /\ "enter_transport" \in inflight
  /\ IF executable_exists
       THEN /\ child' = "running"
            /\ transport' = "open"
            /\ Return("enter_transport", session, "open")
       ELSE /\ child' = child
            /\ transport' = transport
            /\ Raise("enter_transport", session, transport)
  /\ UNCHANGED <<environ, inputs, llm, session, initialized, agentv, stdout,
                 uses, attempts, exit_status>>

\* The child process ends on its own while the transport is open.
ChildDies ==
  /\ child = "running"
  /\ transport = "open"
  /\ child' = "terminated"
  /\ UNCHANGED <<environ, inputs, pc, inflight, llm, transport, session,
                 initialized, agentv, stdout, failed, completed, attempts,
                 uses, exit_status>>

\* ClientSession(read_stream=read, write_stream=write).__aenter__
EnterSession ==
  /\ pc = "enter_session"
  /\ Start("enter_session")
  /\ \E ok \in BOOLEAN :
       IF ok
         THEN session' = "open" /\ Return("enter_session", "open", transport)
         ELSE session' = session /\ Raise("enter_session", session, transport)
  /\ UNCHANGED <<environ, inputs, llm, child, transport, initialized, agentv,
                 stdout, uses, exit_status>>

\* The handshake is started and not awaited.
BeginInitialize_NoAwait ==
  /\ pc = "initialize"
  /\ "initialize" \notin inflight
  /\ Start("initialize")
  /\ inflight' = inflight \cup {"initialize"}
  /\ pc' = After("initialize", session, transport)
  /\ Use("initialize")
  /\ UNCHANGED <<environ, inputs, llm, scopes, agentv, stdout, failed,
                 completed, exit_status>>

\* await session.initialize(): the request is sent and main suspends.
BeginInitialize ==
  /\ pc = "initialize"
  /\ "initialize" \notin inflight
  /\ Start("initialize")
  /\ inflight' = inflight \cup {"initialize"}
  /\ Use("initialize")
  /\ UNCHANGED <<environ, inputs, pc, llm, scopes, agentv, stdout, failed,
                 completed, exit_status>>

\* await session.initialize(): the handshake succeeds only with a live child.
InitializeDone ==
  /\ pc = "initialize"
  /\ "initialize" \in inflight
  /\ \E ok \in BOOLEAN :
       IF ok /\ child = "running"
         THEN initialized' = TRUE /\ Return("initialize", session, transport)
         ELSE initialized' = initialized /\ Raise("initialize", session, transport)
  /\ UNCHANGED <<environ, inputs, llm, child, transport, session, agentv,
                 stdout, attempts, uses, exit_status>>

PrintInitialized ==
  PrintStep("print_initialized", [kind |-> "initialized", text |-> <<>>])

BeginLoadTools ==
  /\ pc = "load_tools"
  /\ "load_tools" \notin inflight
  /\ Start("load_tools")
  /\ inflight' = inflight \cup {"load_tools"}
  /\ Use("load_tools")
  /\ UNCHANGED <<environ, inputs, pc, llm, scopes, agentv, stdout, failed,
                 completed, exit_status>>

\* The names line is written whether or not the query returned.
LoadToolsDone_PrintAlways ==
  /\ pc = "load_tools"
  /\ "load_tools" \in inflight
  /\ \E ok \in BOOLEAN :
       IF ok /\ child = "running"
         THEN /\ tools' = Bound(load_mcp_tools(declared))
              /\ stdout' = stdout
              /\ Return("load_tools", session, transport)
         ELSE /\ tools' = tools
              /\ stdout' = Append(stdout, [kind |-> "tools", names |-> <<>>])
              /\ Raise("load_tools", session, transport)
  /\ UNCHANGED <<environ, inputs, llm, scopes, agent, messages, loop, calls,
                 attempts, uses, exit_status>>

\* tools = await load_mcp_tools(session)
LoadToolsDone ==
  /\ pc = "load_tools"
  /\ "load_tools" \in inflight
  /\ \E ok \in BOOLEAN :
       IF ok /\ child = "running"
         THEN /\ tools' = Bound(load_mcp_tools(declared))
              /\ Return("load_tools", session, transport)
         ELSE /\ tools' = tools
              /\ Raise("load_tools", session, transport)
  /\ UNCHANGED <<environ, inputs, llm, scopes, agent, messages, loop, calls,
                 stdout, attempts, uses, exit_status>>

PrintTools ==
  PrintStep("print_tools", [kind |-> "tools", names |-> ToolNames(tools.val)])

\* agent = create_react_agent(llm, tools)
CreateAgent ==
  /\ pc = "create_agent"
  /\ Start("create_agent")
  /\ \E ok \in BOOLEAN :
       IF ok
         THEN /\ agent' = Bound([llm |-> llm, tools |-> tools.val])
              /\ Return("create_agent", session, transport)
         ELSE /\ agent' = agent
              /\ Raise("create_agent", session, transport)
  /\ UNCHANGED <<environ, inputs, llm, scopes, tools, messages, loop, calls,
                 stdout, uses, exit_status>>

\* result = await agent.ainvoke({"messages": [HumanMessage(...)]})
BeginAinvoke ==
  /\ pc = "ainvoke"
  /\ "ainvoke" \notin inflight
  /\ Start("ainvoke")
  /\ inflight' = inflight \cup {"ainvoke"}
  /\ messages' = <<[role |-> "human", content |-> "What is 2 + 2?"]>>
  /\ loop' = "model"
  /\ UNCHANGED <<environ, inputs, pc, llm, scopes, tools, agent, calls,
                 stdout, failed, completed, uses, exit_status>>

\* The agent asks the model what to do next: a final answer, a tool call,
\* or the remote call fails.  A tool call past the iteration cap raises.
AgentAsksModel ==
  /\ pc = "ainvoke"
  /\ loop = "model"
  /\ \E choice \in {"final", "tool", "error"} :
       CASE choice = "final" ->
              \E a \in Answers :
                /\ messages' = Append(messages, [role |-> "ai", content |-> a])
                /\ loop' = "idle"
                /\ Return("ainvoke", session, transport)
         [] choice = "tool" ->
              /\ Len(agent.val.tools) > 0
              /\ IF calls < MaxCalls
                   THEN /\ messages' = Append(messages,
                                         [role |-> "ai", content |-> "tool_call"])
                        /\ loop' = "tool"
                        /\ UNCHANGED <<pc, failed, inflight, completed>>
                   ELSE /\ messages' = messages
                        /\ loop' = "idle"
                        /\ Raise("ainvoke", session, transport)
         [] choice = "error" ->
              /\ messages' = messages
              /\ loop' = "idle"
              /\ Raise("ainvoke", session, transport)
  /\ UNCHANGED <<environ, inputs, llm, scopes, tools, agent, calls, stdout,
                 attempts, uses, exit_status>>

\* The agent invokes a tool: a round trip through the session.  A failing
\* call is either fed back to the model as a message or raised.
AgentCallsTool ==
  /\ pc = "ainvoke"
  /\ loop = "tool"
  /\ Use("call_tool")
  /\ \E outcome \in {"result", "error_message", "raise"} :
       CASE outcome = "result" ->
              /\ child = "running"
              /\ messages' = Append(messages, [role |-> "tool", content |-> "result"])
              /\ calls' = calls + 1
              /\ loop' = "model"
              /\ UNCHANGED <<pc, failed, inflight, completed>>
         [] outcome = "error_message" ->
              /\ messages' = Append(messages, [role |-> "tool", content |-> "error"])
              /\ calls' = calls + 1
              /\ loop' = "model"
              /\ UNCHANGED <<pc, failed, inflight, completed>>
         [] outcome = "raise" ->
              /\ messages' = messages
              /\ calls' = calls
              /\ loop' = "idle"
              /\ Raise("ainvoke", session, transport)
  /\ UNCHANGED <<environ, inputs, llm, scopes, tools, agent, stdout,
                 attempts, exit_status>>

\* print(result["messages"][-1].content)
PrintAnswer ==
  PrintStep("print_answer",
            [kind |-> "answer", text |-> messages[Len(messages)].content])

\* ----------------------------------------------------------- scope exit
\* The session is never released.
ExitSessionScope_Leak ==
  /\ pc = "exit_session"
  /\ session' = session
  /\ pc' = Unwind("closed", transport)
  /\ UNCHANGED <<environ, inputs, inflight, llm, child, transport,
                 initialized, agentv, stdout, failed, completed, attempts,
                 uses, exit_status>>

\* ClientSession.__aexit__: runs on normal and on failing exit of the block.
ExitSessionScope ==
  /\ pc = "exit_session"
  /\ session' = "closed"
  /\ pc' = Unwind("closed", transport)
  /\ UNCHANGED <<environ, inputs, inflight, llm, child, transport,
                 initialized, agentv, stdout, failed, completed, attempts,
                 uses, exit_status>>

\* The child is cleaned up only when the block ended normally.
ExitTransportScope_NoCleanupOnError ==
  /\ pc = "exit_transport"
  /\ transport' = "closed"
  /\ child' = IF child = "running" /\ failed = "none" THEN "terminated" ELSE child
  /\ pc' = "exit"
  /\ UNCHANGED <<environ, inputs, inflight, llm, session, initialized, agentv,
                 stdout, failed, completed, attempts, uses, exit_status>>

\* stdio_client.__aexit__: runs on normal and on failing exit of the block;
\* the streams are closed and the child is terminated.
ExitTransportScope ==
  /\ pc = "exit_transport"
  /\ transport' = "closed"
  /\ child' = IF child = "running" THEN "terminated" ELSE child
  /\ pc' = "exit"
  /\ UNCHANGED <<environ, inputs, inflight, llm, session, initialized, agentv,
                 stdout, failed, completed, attempts, uses, exit_status>>

\* Every failure is swallowed at the top level.
Exit_SwallowFailure ==
  /\ pc = "exit"
  /\ exit_status' = 0
  /\ pc' = "done"
  /\ UNCHANGED <<environ, inputs, inflight, llm, scopes, agentv, stdout,
                 failed, completed, attempts, uses>>

\* The interpreter ends: status 0, or 1 with a traceback when an exception
\* reached the top level.
Exit ==
  /\ pc = "exit"
  /\ exit_status' = IF failed = "none" THEN 0 ELSE 1
  /\ pc' = "done"
  /\ UNCHANGED <<environ, inputs, inflight, llm, scopes, agentv, stdout,
                 failed, completed, attempts, uses>>

Next ==
  \/ LoadDotenv
  \/ ConstructLLM
  \/ AsyncioRun
  \/ PrintBanner
  \/ BeginEnterTransport
  \/ EnterTransportDone
  \/ ChildDies
  \/ EnterSession
  \/ BeginInitialize
  \/ InitializeDone
  \/ PrintInitialized
  \/ BeginLoadTools
  \/ LoadToolsDone
  \/ PrintTools
  \/ CreateAgent
  \/ BeginAinvoke
  \/ AgentAsksModel
  \/ AgentCallsTool
  \/ PrintAnswer
  \/ ExitSessionScope
  \/ ExitTransportScope
  \/ Exit

Spec == Init /\ [][Next]_vars

\* ======================================================== properties
Kinds(out) == [i \in 1..Len(out) |-> out[i].kind]
Printed(kind) == \E i \in 1..Len(stdout) : stdout[i].kind = kind
TimesPrinted(kind) == Cardinality({i \in 1..Len(stdout) : stdout[i].kind = kind})
IsPrefix(a, b) == Len(a) <= Len(b) /\ \A i \in 1..Len(a) : a[i] = b[i]
ExpectedOutput == <<"banner", "initialized", "tools", "answer">>
Unwinding == {"exit_session", "exit_transport", "exit", "done"}

\* C1: the capability query (load_mcp_tools) is issued only after
\* session.initialize() has returned on the session; when the handshake
\* raised or has not returned, no query was issued and no tool list exists.
C1_QueryOnlyAfterHandshake ==
  /\ (attempts["load_tools"] > 0 \/ tools.bound)
       => (initialized /\ "initialize" \in completed /\ session # "none")
  /\ (failed = "initialize" \/ "initialize" \in inflight \/ ~initialized)
       => (attempts["load_tools"] = 0 /\ ~tools.bound)

C1_Witness ==
  /\ attempts["load_tools"] = 1
  /\ tools.bound
  /\ initialized

\* C2: once the stdio_client block has been left, normally or by an
\* exception from any statement inside it, the child process is not running.
C2_ChildStoppedAfterScope ==
  (transport = "closed" \/ pc \in {"exit", "done"}) => child # "running"

C2_Witness ==
  /\ transport = "closed"
  /\ child = "terminated"
  /\ failed = "print_answer"
  /\ "ainvoke" \in completed

\* C3: with the credential absent from os.environ and from the .env file,
\* the run fails at the construction of the chat client, and no child
\* process has been launched or is ever launched.
C3_NoCredentialNoChild ==
  (environ0[CredentialKey] = Unset /\ dotenv[CredentialKey] = Unset)
    => /\ llm = "none"
       /\ child = "none"
       /\ transport = "none"
       /\ attempts["enter_transport"] = 0
       /\ attempts["construct_llm"] > 0 => failed = "construct_llm"
       /\ pc = "done" => exit_status = 1

C3_Witness ==
  /\ environ0[CredentialKey] = Unset
  /\ dotenv[CredentialKey] = Unset
  /\ failed = "construct_llm"
  /\ pc = "done"

\* C4: when the executable of the launch specification cannot be started,
\* the run ends with a non-zero status, "session initialized" is never
\* printed, and handshake, capability query and agent invocation never start.
C4_LaunchFailureStopsRun ==
  ~executable_exists
    => /\ ~Printed("initialized")
       /\ attempts["initialize"] = 0
       /\ attempts["load_tools"] = 0
       /\ attempts["ainvoke"] = 0
       /\ session = "none"
       /\ ("enter_transport" \in completed) = FALSE
       /\ pc = "done" => exit_status = 1

C4_Witness ==
  /\ ~executable_exists
  /\ failed = "enter_transport"
  /\ pc = "done"
  /\ exit_status = 1

\* C5 as stated: after load_dotenv(), every key of the .env file is in
\* os.environ with exactly the file's value, whatever the environment held.
C5_Original ==
  "load_dotenv" \in completed
    => \A k \in Keys : dotenv[k] # Unset => environ[k] = dotenv[k]

\* C5: after load_dotenv(), a key of the .env file that the initial
\* environment did not define has exactly the file's value, and a key the
\* initial environment already defined keeps its initial value.
C5_DotenvFillsOnlyUnsetKeys ==
  "load_dotenv" \in completed
    => \A k \in Keys :
         /\ (dotenv[k] # Unset /\ environ0[k] = Unset) => environ[k] = dotenv[k]
         /\ environ0[k] # Unset => environ[k] = environ0[k]
         /\ (dotenv[k] = Unset /\ environ0[k] = Unset) => environ[k] = Unset

C5_Witness ==
  /\ "load_dotenv" \in completed
  /\ \E k \in Keys :
       dotenv[k] # Unset /\ environ0[k] # Unset /\ dotenv[k] # environ0[k]
  /\ \E k \in Keys :
       dotenv[k] # Unset /\ environ0[k] = Unset /\ environ[k] = dotenv[k]

\* The steps C6 names.
ClaimedSteps ==
  {"load_dotenv", "construct_llm", "enter_transport", "initialize",
   "load_tools", "create_agent", "ainvoke", "print_answer"}

\* C6: the process ends with status 0 exactly when configuration, client
\* construction, launch, handshake, capability query, agent construction,
\* the agent invocation and the printing of the answer all returned; a
\* failure of any step ends it with a non-zero status.
C6_ExitZeroIffAllSteps ==
  pc = "done"
    => /\ (exit_status = 0) <=> (ClaimedSteps \subseteq completed)
       /\ (failed # "none") <=> (exit_status = 1)
       /\ exit_status \in {0, 1}

C6_Witness ==
  /\ pc = "done"
  /\ exit_status = 0
  /\ ClaimedSteps \subseteq completed

\* C7 as stated: in a run that fails at client construction, launch,
\* handshake, capability query, agent construction or agent invocation,
\* neither the tool names nor an answer has been printed.
C7_Original ==
  failed \in {"construct_llm", "enter_transport", "initialize", "load_tools",
              "create_agent", "ainvoke"}
    => (~Printed("tools") /\ ~Printed("answer"))

\* C7: in a run that fails at client construction, launch, handshake or
\* capability query, neither the tool names nor an answer has been printed;
\* in a run that fails at agent construction or agent invocation the tool
\* names have been printed (once) and no answer has been printed.
C7_NoAnswerOnFailure ==
  /\ failed \in {"construct_llm", "enter_transport", "initialize", "load_tools"}
       => (~Printed("tools") /\ ~Printed("answer"))
  /\ failed \in {"create_agent", "ainvoke"}
       => (TimesPrinted("tools") = 1 /\ ~Printed("answer"))

C7_Witness ==
  /\ failed = "ainvoke"
  /\ Printed("tools")
  /\ ~Printed("answer")
  /\ pc = "done"

\* C8: a successful run prints the banner, the session-initialized line,
\* the tool names and the answer, in this order, each once and nothing
\* else; in every run the output is a prefix of that sequence, and the
\* banner is printed before the child process is launched.
C8_OutputOrder ==
  /\ IsPrefix(Kinds(stdout), ExpectedOutput)
  /\ (pc = "done" /\ exit_status = 0)
       => /\ Kinds(stdout) = ExpectedOutput
          /\ stdout[3].names = [i \in 1..Len(declared) |-> declared[i].name]
          /\ stdout[4].text = messages[Len(messages)].content
  /\ (attempts["enter_transport"] > 0 \/ child # "none")
       => (Len(stdout) >= 1 /\ stdout[1].kind = "banner")

C8_Witness ==
  /\ pc = "done"
  /\ exit_status = 0
  /\ Len(stdout) = 4
  /\ Len(declared) > 0

\* C9: the session scope lies strictly inside the transport scope: it is
\* opened after the transport and released before it, on every exit, and
\* every use of the transport (handshake, capability query, each tool
\* invocation) happens while both scopes are open.
C9_SessionInsideTransport ==
  /\ session = "open" => transport = "open"
  /\ session # "none" => transport # "none"
  /\ transport = "closed" => (session # "open" /\ pc \in {"exit", "done"})
  /\ \A u \in uses : u.transport = "open" /\ u.session = "open"
  /\ (pc \in {"exit", "done"}) => (session # "open" /\ transport # "open")

C9_Witness ==
  /\ transport = "closed"
  /\ session = "closed"
  /\ \E u \in uses : u.op = "call_tool"
  /\ \E u \in uses : u.op = "load_tools"

\* The order of the steps C10 names, and its conditions on one state.
ClaimedOrder ==
  <<"load_dotenv", "construct_llm", "asyncio_run", "print_banner",
    "enter_transport", "enter_session", "initialize", "print_initialized",
    "load_tools", "print_tools", "create_agent", "ainvoke", "print_answer">>

C10_State ==
  /\ \A s \in AllSteps : attempts[s] <= 1
  /\ \A i \in 1..(Len(ClaimedOrder) - 1) :
       attempts[ClaimedOrder[i + 1]] > 0 => ClaimedOrder[i] \in completed
  /\ Cardinality(inflight) <= 1
  /\ failed # "none" => (pc \in Unwinding /\ inflight = {})
  /\ agent.bound => (tools.bound /\ agent.val.tools = tools.val)
  /\ Len(messages) > 0
       => messages[1] = [role |-> "human", content |-> "What is 2 + 2?"]
  /\ calls <= MaxCalls

\* C10: every step is started at most once and only after the step before
\* it returned; nothing is started after a failure; at most one awaited
\* call is in progress; the tool list and the agent built from it do not
\* change once bound; the agent is invoked with the one fixed request.
C10_OncePerRunInSequence ==
  /\ []C10_State
  /\ [][/\ tools.bound => tools' = tools
        /\ agent.bound => agent' = agent
        /\ failed # "none" => attempts' = attempts]_vars

C10_Witness ==
  /\ pc = "done"
  /\ exit_status = 0
  /\ calls = 2
  /\ \A s \in AllSteps : attempts[s] = 1
====
